---- MODULE Spec2Model ----
(***************************************************************************)
(* Process supervision of the dispatch-tester 2-router smoke test:         *)
(*   tests/process.py       Process (atexit-registered teardown)           *)
(*   tests/ombt_process.py  OmbtDaemon, OmbtController (SIGALRM timeout)   *)
(*   tests/router_query_process.py  RouterContainerQuery                   *)
(*                                                                         *)
(* One Python main thread creates Process objects one after the other,     *)
(* the SIGALRM handler runs inside that thread between two of its steps,   *)
(* and the external processes run concurrently with it.                    *)
(*                                                                         *)
(* Environment: a SIGKILL cannot be caught, so a process that was sent one *)
(* is gone after any sleep of the main thread; a process with a pending    *)
(* SIGTERM dies of it (status -15) when it is scheduled next.              *)
(***************************************************************************)
EXTENDS Integers, Sequences, FiniteSets, TLC

\* number of Process objects one run creates
MaxProcs == 2
\* how often in a row teardown may be invoked for one Process
MaxTeardownRuns == 2

\* process.py:38-39
MAX_ATTEMPTS == 3
ATTEMPT_DELAY == 1

\* the timeout arguments of OmbtController: 0 arms nothing, DefaultTimeout
\* is the default of the constructor
DefaultTimeout == 120
Timeouts == {0, DefaultTimeout}

Procs == 1..MaxProcs

\* Popen.returncode: None or an exit status
None == << >>
RC(n) == << n >>

VARIABLES
    nprocs,          \* Process objects created so far
    kind,            \* class of each object
    timeout,         \* OmbtController timeout argument
    os,              \* the external process: unborn, running, dying, zombie, reaped
    status,          \* exit status the operating system holds for it
    returncode,      \* Popen.returncode
    terminated,      \* OmbtController.terminated
    sigs,            \* signals sent to the process: <<signal, sender>>
    registered,      \* atexit handlers, in registration order
    returned,        \* the OmbtController constructor has returned
    disarmed,        \* the constructor has called signal.alarm(0)
    result,          \* what get_results returned
    pc,              \* position of the main thread
    cur,             \* object under construction
    sigalrm_handler, \* object whose _timeout is the SIGALRM handler
    alarm_pending,   \* signal.alarm is armed
    h_pc,            \* position inside the running _timeout callback
    fireSaw,         \* what is_running() returned to _timeout
    exitq,           \* atexit handlers still to run at interpreter exit
    tdl,             \* locals and history of the current teardown call
    parse,           \* one call that parses what a process wrote
    thr,             \* one evaluation of thresholds
    sweep            \* the pytest run of test_smoke_01.py

supVars == << nprocs, kind, timeout, os, status, returncode, terminated, sigs,
              registered, returned, disarmed, result, pc, cur, sigalrm_handler,
              alarm_pending, h_pc, fireSaw, exitq, tdl >>

\* the state of the calls and of the run that are studied on their own
pureVars == << parse, thr, sweep >>

vars == << supVars, pureVars >>

procVars == << nprocs, kind, timeout >>
timerVars == << sigalrm_handler, alarm_pending, h_pc, fireSaw >>
tdVars == << exitq, tdl >>
ctlVars == << returned, disarmed, result >>

NoTeardown == [p |-> 0, run |-> 0, attempt |-> 0, delays |-> 0, alive |-> 0,
               sawExit |-> FALSE, exitedBefore |-> FALSE, sigs0 |-> 0,
               done |-> FALSE]

\* not in use
Idle == [pc |-> "idle"]

SupervisionInit ==
    /\ nprocs = 0
    /\ kind = [p \in Procs |-> "none"]
    /\ timeout = [p \in Procs |-> 0]
    /\ os = [p \in Procs |-> "unborn"]
    /\ status = [p \in Procs |-> None]
    /\ returncode = [p \in Procs |-> None]
    /\ terminated = [p \in Procs |-> FALSE]
    /\ sigs = [p \in Procs |-> << >>]
    /\ registered = << >>
    /\ returned = [p \in Procs |-> FALSE]
    /\ disarmed = [p \in Procs |-> FALSE]
    /\ result = [p \in Procs |-> "unset"]
    /\ pc = "main"
    /\ cur = 0
    /\ sigalrm_handler = 0
    /\ alarm_pending = FALSE
    /\ h_pc = "idle"
    /\ fireSaw = [p \in Procs |-> "none"]
    /\ exitq = << >>
    /\ tdl = NoTeardown

Init ==
    /\ SupervisionInit
    /\ parse = Idle
    /\ thr = Idle
    /\ sweep = Idle

----------------------------------------------------------------------------
\* Helpers

RECURSIVE Reverse(_)
Reverse(s) == IF s = << >> THEN << >> ELSE Append(Reverse(Tail(s)), Head(s))

InSeq(x, s) == \E i \in 1..Len(s) : s[i] = x

\* Popen.poll(): the return code after a non-blocking waitpid.  A child that
\* was already reaped (failed exec) gives ECHILD, which poll turns into 0.
PollRC(p) ==
    IF returncode[p] # None THEN returncode[p]
    ELSE IF os[p] = "zombie" THEN status[p]
    ELSE IF os[p] = "reaped" THEN RC(0)
    ELSE None

PollOS(p) == IF os[p] = "zombie" /\ returncode[p] = None THEN "reaped" ELSE os[p]

\* os.kill(pid, sig) as the external process sees it
Deliver(p, sig) ==
    IF os[p] = "running" /\ sig = "SIGKILL" THEN "dying" ELSE os[p]

TermPending(p) == os[p] = "running" /\ \E i \in 1..Len(sigs[p]) : sigs[p][i][1] = "SIGTERM"

\* a sleep of the main thread: every SIGKILL sent before it has taken effect
AfterSleepOS == [p \in Procs |-> IF os[p] = "dying" THEN "zombie" ELSE os[p]]
AfterSleepStatus == [p \in Procs |-> IF os[p] = "dying" THEN RC(-9) ELSE status[p]]

----------------------------------------------------------------------------
\* The orchestrator creates the next Process object (test_smoke_01.py).

MainIdle == pc = "main" /\ h_pc = "idle"

\* OmbtDaemon(...): Process.__init__ and nothing else
NewDaemon ==
    /\ MainIdle
    /\ nprocs < MaxProcs
    /\ nprocs' = nprocs + 1
    /\ kind' = [kind EXCEPT ![nprocs + 1] = "daemon"]
    /\ cur' = nprocs + 1
    /\ pc' = "p_register"
    /\ UNCHANGED << timeout, os, status, returncode, terminated, sigs, registered,
                    ctlVars, timerVars, tdVars >>
    /\ UNCHANGED pureVars

\* RouterContainerQuery(...): Process.__init__, then communicate()
NewQuery ==
    /\ MainIdle
    /\ nprocs < MaxProcs
    /\ nprocs' = nprocs + 1
    /\ kind' = [kind EXCEPT ![nprocs + 1] = "query"]
    /\ cur' = nprocs + 1
    /\ pc' = "p_register"
    /\ UNCHANGED << timeout, os, status, returncode, terminated, sigs, registered,
                    ctlVars, timerVars, tdVars >>
    /\ UNCHANGED pureVars

\* OmbtController(..., timeout=t): terminated = False, the argument list
NewController(t) ==
    /\ MainIdle
    /\ nprocs < MaxProcs
    /\ nprocs' = nprocs + 1
    /\ kind' = [kind EXCEPT ![nprocs + 1] = "controller"]
    /\ timeout' = [timeout EXCEPT ![nprocs + 1] = t]
    /\ terminated' = [terminated EXCEPT ![nprocs + 1] = FALSE]
    /\ cur' = nprocs + 1
    /\ pc' = "ctl_arm"
    /\ UNCHANGED << os, status, returncode, sigs, registered,
                    ctlVars, timerVars, tdVars >>
    /\ UNCHANGED pureVars

\* "define a timeout alarm": signal.signal(SIGALRM, self._timeout); signal.alarm(timeout)
ArmsTimerNever(t) == FALSE
ArmsTimer(t) == t > 0

Arm ==
    /\ pc = "ctl_arm" /\ h_pc = "idle"
    /\ IF ArmsTimer(timeout[cur])
         THEN sigalrm_handler' = cur /\ alarm_pending' = TRUE
         ELSE UNCHANGED << sigalrm_handler, alarm_pending >>
    /\ pc' = "p_register"
    /\ UNCHANGED << procVars, os, status, returncode, terminated, sigs, registered,
                    ctlVars, cur, h_pc, fireSaw, tdVars >>
    /\ UNCHANGED pureVars

\* Process.__init__: atexit.register(self.teardown) ...
RegisterNot(p) == registered
RegisterTeardown(p) == Append(registered, p)

Register ==
    /\ pc = "p_register" /\ h_pc = "idle"
    /\ registered' = RegisterTeardown(cur)
    /\ pc' = "p_spawn"
    /\ UNCHANGED << procVars, os, status, returncode, terminated, sigs,
                    ctlVars, cur, timerVars, tdVars >>
    /\ UNCHANGED pureVars

\* ... then Popen.__init__: the child starts, or the exec fails (OSError).  In
\* the failing case Popen has already reaped the child and returncode is None.
AfterSpawnNoWait(k) ==
    IF k = "controller" THEN "ctl_disarm"
    ELSE IF k = "query" THEN "q_communicate"
    ELSE "main"

AfterSpawnPc(k) ==
    IF k = "controller" THEN "ctl_wait"
    ELSE IF k = "query" THEN "q_communicate"
    ELSE "main"

Spawn ==
    /\ pc = "p_spawn" /\ h_pc = "idle"
    /\ \E ok \in BOOLEAN :
         IF ok
           THEN /\ os' = [os EXCEPT ![cur] = "running"]
                /\ pc' = AfterSpawnPc(kind[cur])
           ELSE /\ os' = [os EXCEPT ![cur] = "reaped"]
                /\ pc' = "main"
    /\ UNCHANGED << procVars, status, returncode, terminated, sigs, registered,
                    ctlVars, cur, timerVars, tdVars >>
    /\ UNCHANGED pureVars

\* OmbtController.__init__: while self.is_running(): time.sleep(0.5)
WaitPoll ==
    /\ pc = "ctl_wait" /\ h_pc = "idle"
    /\ returncode' = [returncode EXCEPT ![cur] = PollRC(cur)]
    /\ os' = [os EXCEPT ![cur] = PollOS(cur)]
    /\ pc' = IF PollRC(cur) = None THEN "ctl_sleep" ELSE "ctl_disarm"
    /\ UNCHANGED << procVars, status, terminated, sigs, registered,
                    ctlVars, cur, timerVars, tdVars >>
    /\ UNCHANGED pureVars

WaitSleep ==
    /\ pc = "ctl_sleep" /\ h_pc = "idle"
    /\ os' = AfterSleepOS
    /\ status' = AfterSleepStatus
    /\ pc' = "ctl_wait"
    /\ UNCHANGED << procVars, returncode, terminated, sigs, registered,
                    ctlVars, cur, timerVars, tdVars >>
    /\ UNCHANGED pureVars

\* the output is read, then: if timeout > 0: signal.alarm(0); the constructor returns
AlarmAfterDisarmKept(t) == alarm_pending
AlarmAfterDisarm(t) == IF t > 0 THEN FALSE ELSE alarm_pending

Disarm ==
    /\ pc = "ctl_disarm" /\ h_pc = "idle"
    /\ alarm_pending' = AlarmAfterDisarm(timeout[cur])
    /\ disarmed' = [disarmed EXCEPT ![cur] = timeout[cur] > 0]
    /\ returned' = [returned EXCEPT ![cur] = TRUE]
    /\ pc' = "ctl_returned"
    /\ UNCHANGED << procVars, os, status, returncode, terminated, sigs, registered,
                    result, cur, sigalrm_handler, h_pc, fireSaw, tdVars >>
    /\ UNCHANGED pureVars

\* OmbtController.get_results, called by execute_ombt_command
\* "if self.returncode != 0 or self.terminated: return None"
ResultsRefusedIgnoringTimeout(rc, term) == rc # RC(0)
ResultsRefusedIgnoringExitCode(rc, term) == term
ResultsRefused(rc, term) == rc # RC(0) \/ term

get_results(p) ==
    IF ResultsRefused(returncode[p], terminated[p]) THEN "None" ELSE "from_output"

GetResults ==
    /\ pc = "ctl_returned" /\ h_pc = "idle"
    /\ result' = [result EXCEPT ![cur] = get_results(cur)]
    /\ pc' = "main"
    /\ UNCHANGED << procVars, os, status, returncode, terminated, sigs, registered,
                    returned, disarmed, cur, timerVars, tdVars >>
    /\ UNCHANGED pureVars

\* tear_down() builds the shutdown controller and drops it
DropController ==
    /\ pc = "ctl_returned" /\ h_pc = "idle"
    /\ pc' = "main"
    /\ UNCHANGED << procVars, os, status, returncode, terminated, sigs, registered,
                    ctlVars, cur, timerVars, tdVars >>
    /\ UNCHANGED pureVars

\* RouterContainerQuery.__init__: self.communicate() blocks until the exit
Communicate ==
    /\ pc = "q_communicate" /\ h_pc = "idle"
    /\ os[cur] = "zombie"
    /\ returncode' = [returncode EXCEPT ![cur] = status[cur]]
    /\ os' = [os EXCEPT ![cur] = "reaped"]
    /\ pc' = "main"
    /\ UNCHANGED << procVars, status, terminated, sigs, registered,
                    ctlVars, cur, timerVars, tdVars >>
    /\ UNCHANGED pureVars

----------------------------------------------------------------------------
\* OmbtController._timeout, the SIGALRM handler.  It runs in the main thread
\* between two of its steps; the external processes keep running meanwhile.

\* "if self.is_running():"
TimeoutTerminatesAlways(running) == TRUE
TimeoutTerminates(running) == running

\* SIGALRM is delivered: the alarm is spent and the handler makes its
\* liveness check.  Before Popen.__init__ has run the object has no
\* returncode: poll raises and the exception ends the constructor.
TimerFire ==
    /\ alarm_pending /\ h_pc = "idle"
    /\ alarm_pending' = FALSE
    /\ LET hp == sigalrm_handler IN
         IF os[hp] = "unborn"
           THEN /\ fireSaw' = [fireSaw EXCEPT ![hp] = "raised"]
                /\ pc' = "main"
                /\ UNCHANGED << returncode, os, h_pc >>
           ELSE /\ returncode' = [returncode EXCEPT ![hp] = PollRC(hp)]
                /\ os' = [os EXCEPT ![hp] = PollOS(hp)]
                /\ fireSaw' = [fireSaw EXCEPT ![hp] =
                                 IF PollRC(hp) = None THEN "running" ELSE "exited"]
                /\ h_pc' = IF TimeoutTerminates(PollRC(hp) = None)
                             THEN "terminate" ELSE "idle"
                /\ pc' = pc
    /\ UNCHANGED << procVars, status, terminated, sigs, registered,
                    ctlVars, cur, sigalrm_handler, tdVars >>
    /\ UNCHANGED pureVars

\* self.terminate()
TimeoutTerminate ==
    /\ h_pc = "terminate"
    /\ sigs' = [sigs EXCEPT ![sigalrm_handler] = Append(@, << "SIGTERM", "_timeout" >>)]
    /\ h_pc' = "mark"
    /\ UNCHANGED << procVars, os, status, returncode, terminated, registered,
                    ctlVars, pc, cur, sigalrm_handler, alarm_pending, fireSaw, tdVars >>
    /\ UNCHANGED pureVars

\* self.terminated = True
TimeoutMark ==
    /\ h_pc = "mark"
    /\ terminated' = [terminated EXCEPT ![sigalrm_handler] = TRUE]
    /\ h_pc' = "idle"
    /\ UNCHANGED << procVars, os, status, returncode, sigs, registered,
                    ctlVars, pc, cur, sigalrm_handler, alarm_pending, fireSaw, tdVars >>
    /\ UNCHANGED pureVars

----------------------------------------------------------------------------
\* The external processes

\* the process ends by itself, with exit code 0 or 1
ProcExit(p) ==
    /\ os[p] = "running" /\ ~TermPending(p)
    /\ \E c \in {0, 1} : status' = [status EXCEPT ![p] = RC(c)]
    /\ os' = [os EXCEPT ![p] = "zombie"]
    /\ UNCHANGED << procVars, returncode, terminated, sigs, registered,
                    ctlVars, pc, cur, timerVars, tdVars >>
    /\ UNCHANGED pureVars

\* the process dies of the SIGTERM it was sent
ProcDieTerm(p) ==
    /\ TermPending(p)
    /\ status' = [status EXCEPT ![p] = RC(-15)]
    /\ os' = [os EXCEPT ![p] = "zombie"]
    /\ UNCHANGED << procVars, returncode, terminated, sigs, registered,
                    ctlVars, pc, cur, timerVars, tdVars >>
    /\ UNCHANGED pureVars

\* the process dies of the SIGKILL it was sent
ProcDieKill(p) ==
    /\ os[p] = "dying"
    /\ status' = [status EXCEPT ![p] = RC(-9)]
    /\ os' = [os EXCEPT ![p] = "zombie"]
    /\ UNCHANGED << procVars, returncode, terminated, sigs, registered,
                    ctlVars, pc, cur, timerVars, tdVars >>
    /\ UNCHANGED pureVars

----------------------------------------------------------------------------
\* Interpreter exit: atexit runs the registered teardowns, last registered first.

AtExit ==
    /\ MainIdle
    /\ nprocs > 0
    /\ pc' = "atexit"
    /\ exitq' = Reverse(registered)
    /\ UNCHANGED << procVars, os, status, returncode, terminated, sigs, registered,
                    ctlVars, cur, timerVars, tdl >>
    /\ UNCHANGED pureVars

\* Process.teardown is entered for p, for the run-th time: attempt = 0
TeardownEnter(p, run) ==
    /\ tdl' = [p |-> p, run |-> run, attempt |-> 0, delays |-> 0, alive |-> 0,
               sawExit |-> FALSE, exitedBefore |-> os[p] \in {"zombie", "reaped"},
               sigs0 |-> Len(sigs[p]), done |-> FALSE]
    /\ pc' = "td_check"

AtExitNext ==
    /\ pc = "atexit" /\ h_pc = "idle"
    /\ exitq # << >>
    /\ TeardownEnter(Head(exitq), 1)
    /\ exitq' = Tail(exitq)
    /\ UNCHANGED << procVars, os, status, returncode, terminated, sigs, registered,
                    ctlVars, cur, timerVars >>
    /\ UNCHANGED pureVars

\* the teardown that has just returned is called once more for the same object
TeardownAgain ==
    /\ pc = "atexit" /\ h_pc = "idle"
    /\ tdl.done
    /\ tdl.run < MaxTeardownRuns
    /\ TeardownEnter(tdl.p, tdl.run + 1)
    /\ UNCHANGED << procVars, os, status, returncode, terminated, sigs, registered,
                    ctlVars, cur, timerVars, exitq >>
    /\ UNCHANGED pureVars

\* "while self.is_running() and attempt < self.MAX_ATTEMPTS:"
TeardownLoopCondOneLess(running, attempt) == running /\ attempt < MAX_ATTEMPTS - 1
TeardownLoopCondOneMore(running, attempt) == running /\ attempt <= MAX_ATTEMPTS
TeardownLoopCond(running, attempt) == running /\ attempt < MAX_ATTEMPTS

\* The loop condition is evaluated: is_running() polls the process.  An object
\* whose Popen.__init__ never ran has no returncode: the teardown raises, and
\* atexit goes on with the next handler.
TeardownCheck ==
    /\ pc = "td_check" /\ h_pc = "idle"
    /\ LET p == tdl.p
           running == PollRC(p) = None
       IN  IF os[p] = "unborn"
             THEN /\ tdl' = [tdl EXCEPT !.done = TRUE]
                  /\ pc' = "atexit"
                  /\ UNCHANGED << returncode, os >>
             ELSE /\ returncode' = [returncode EXCEPT ![p] = PollRC(p)]
                  /\ os' = [os EXCEPT ![p] = PollOS(p)]
                  /\ IF TeardownLoopCond(running, tdl.attempt)
                       THEN /\ tdl' = [tdl EXCEPT !.attempt = @ + 1, !.alive = @ + 1]
                            /\ pc' = "td_sleep"
                       ELSE /\ tdl' = [tdl EXCEPT
                                         !.alive = IF running THEN @ + 1 ELSE @,
                                         !.sawExit = ~running]
                            /\ pc' = "td_final"
    /\ UNCHANGED << procVars, status, terminated, sigs, registered,
                    ctlVars, cur, timerVars, exitq >>
    /\ UNCHANGED pureVars

\* time.sleep(Process.ATTEMPT_DELAY)
TeardownSleep ==
    /\ pc = "td_sleep" /\ h_pc = "idle"
    /\ tdl' = [tdl EXCEPT !.delays = @ + ATTEMPT_DELAY]
    /\ os' = AfterSleepOS
    /\ status' = AfterSleepStatus
    /\ pc' = "td_check"
    /\ UNCHANGED << procVars, returncode, terminated, sigs, registered,
                    ctlVars, cur, timerVars, exitq >>
    /\ UNCHANGED pureVars

\* "if self.returncode is None:"
TeardownKillsNever(p) == FALSE
TeardownKillsAlways(p) == TRUE
TeardownKills(p) == returncode[p] = None

\* "self.kill()"
TeardownSignalTerm == "SIGTERM"
TeardownSignal == "SIGKILL"

TeardownFinal ==
    /\ pc = "td_final" /\ h_pc = "idle"
    /\ LET p == tdl.p IN
         IF TeardownKills(p)
           THEN /\ sigs' = [sigs EXCEPT ![p] = Append(@, << TeardownSignal, "teardown" >>)]
                /\ os' = [os EXCEPT ![p] = Deliver(p, TeardownSignal)]
           ELSE UNCHANGED << sigs, os >>
    /\ tdl' = [tdl EXCEPT !.done = TRUE]
    /\ pc' = "atexit"
    /\ UNCHANGED << procVars, status, returncode, terminated, registered,
                    ctlVars, cur, timerVars, exitq >>
    /\ UNCHANGED pureVars

----------------------------------------------------------------------------

MainStep ==
    \/ NewDaemon
    \/ NewQuery
    \/ \E t \in Timeouts : NewController(t)
    \/ Arm
    \/ Register
    \/ Spawn
    \/ WaitPoll
    \/ WaitSleep
    \/ Disarm
    \/ GetResults
    \/ DropController
    \/ Communicate
    \/ AtExit
    \/ AtExitNext
    \/ TeardownAgain
    \/ TeardownCheck
    \/ TeardownSleep
    \/ TeardownFinal

HandlerStep ==
    \/ TimerFire
    \/ TimeoutTerminate
    \/ TimeoutMark

EnvStep ==
    \/ \E p \in Procs : ProcExit(p)
    \/ \E p \in Procs : ProcDieTerm(p)
    \/ \E p \in Procs : ProcDieKill(p)

Next == MainStep \/ HandlerStep \/ EnvStep

Spec == Init /\ [][Next]_vars

\* The interpreter keeps executing the main thread and a started signal
\* handler; nothing is assumed of the external processes.
FairSpec == Spec /\ WF_vars(MainStep) /\ WF_vars(HandlerStep)

\* ... and a command that was sent SIGTERM does not block or ignore it: the
\* signal ends it.
SignalFairSpec == FairSpec /\ \A p \in Procs : WF_vars(ProcDieTerm(p))

----------------------------------------------------------------------------
\* Vocabulary of the properties

Created == 1..nprocs

Sent(p, sig, by) == \E i \in 1..Len(sigs[p]) : sigs[p][i] = << sig, by >>

\* the atexit sweep has run the teardown of every registered object
AtExitDone == pc = "atexit" /\ exitq = << >>

\* a teardown call is in progress or has just returned
InTeardown == pc \in {"td_check", "td_sleep", "td_final"}

\* signals sent to the object of the current teardown call since it began
TeardownSent == Len(sigs[tdl.p]) - tdl.sigs0

\* the OmbtController constructor of cur is executing
InConstructor == pc \in {"ctl_arm", "p_register", "p_spawn", "ctl_wait",
                         "ctl_sleep", "ctl_disarm"} /\ kind[cur] = "controller"

\* the process ended by itself, not of a signal
ExitedOnItsOwn(p) == status[p] \in {RC(0), RC(1)}

----------------------------------------------------------------------------
\* C1: once the atexit sweep has run the teardown of every registered Process,
\* no process is still running: each one that was started has been observed
\* exited (returncode set) or has been sent SIGKILL by its teardown.
C1_NoProcessOutlivesProgram ==
    AtExitDone =>
        \A p \in Created :
            /\ os[p] # "running"
            /\ os[p] # "unborn" =>
                 (returncode[p] # None \/ Sent(p, "SIGKILL", "teardown"))

\* a daemon that had to be killed and a controller that was observed exited
C1_Witness ==
    /\ AtExitDone
    /\ \E p, q \in Created :
         /\ kind[p] = "daemon" /\ Sent(p, "SIGKILL", "teardown")
         /\ kind[q] = "controller" /\ returncode[q] # None

\* C2: a running process always has its teardown registered, and no step
\* removes the registration of a running process.
C2_RunningImpliesRegistered ==
    /\ [](\A p \in Procs : os[p] \in {"running", "dying"} => InSeq(p, registered))
    /\ [][\A p \in Procs :
            (InSeq(p, registered) /\ os[p] \in {"running", "dying"})
                => InSeq(p, registered')]_vars

\* a registered process that is running while the atexit sweep reaches it
C2_Witness ==
    pc = "td_check" /\ os[tdl.p] = "running" /\ InSeq(tdl.p, registered)

\* C3: teardown sends SIGKILL only after exactly MAX_ATTEMPTS delays of
\* ATTEMPT_DELAY with the process alive at all MAX_ATTEMPTS + 1 liveness
\* checks; once a check has seen the process exited, no kill is sent.
C3_KillOnlyAfterAllAttempts ==
    /\ (tdl.p # 0 /\ TeardownSent > 0) =>
          /\ tdl.delays = MAX_ATTEMPTS * ATTEMPT_DELAY
          /\ tdl.alive = MAX_ATTEMPTS + 1
          /\ ~tdl.sawExit
    /\ (tdl.p # 0 /\ tdl.sawExit) => TeardownSent = 0

\* a teardown that has killed its process
C3_Witness ==
    /\ tdl.done /\ tdl.p # 0
    /\ TeardownSent = 1
    /\ sigs[tdl.p][Len(sigs[tdl.p])] = << "SIGKILL", "teardown" >>
    /\ tdl.delays = MAX_ATTEMPTS * ATTEMPT_DELAY

\* C4 as claimed: a SIGKILL sent by teardown is preceded by a SIGTERM sent by
\* teardown to the same process.
C4_KillPrecededByTerminate ==
    \A p \in Procs : \A i \in 1..Len(sigs[p]) :
        sigs[p][i] = << "SIGKILL", "teardown" >> =>
            \E j \in 1..(i - 1) : sigs[p][j] = << "SIGTERM", "teardown" >>

\* C4 as amended: teardown sends no graceful termination request; the only
\* signal it ever sends is SIGKILL, and every SIGTERM a process receives
\* comes from the timeout callback.
C4_TeardownOnlyKills ==
    \A p \in Procs : \A i \in 1..Len(sigs[p]) :
        /\ sigs[p][i][2] = "teardown" => sigs[p][i][1] = "SIGKILL"
        /\ sigs[p][i][1] = "SIGTERM" => sigs[p][i][2] = "_timeout"

\* a process alive when its teardown began, killed by it
C4_Witness ==
    /\ tdl.done /\ tdl.p # 0 /\ ~tdl.exitedBefore
    /\ Sent(tdl.p, "SIGKILL", "teardown")
    /\ tdl.run = 1

\* C5: a second (or later) call of teardown for the same object sends no
\* signal and ends with the process not running.
C5_TeardownIdempotent ==
    tdl.run >= 2 =>
        /\ TeardownSent = 0
        /\ tdl.done => os[tdl.p] # "running"

\* the second teardown of a process the first teardown had to kill has returned
C5_Witness ==
    /\ tdl.done /\ tdl.p # 0
    /\ tdl.run = 2
    /\ Sent(tdl.p, "SIGKILL", "teardown")
    /\ os[tdl.p] = "reaped"

\* C6: a teardown call sleeps at most MAX_ATTEMPTS times and always returns;
\* for a process that had exited before the call it returns without a
\* delay and without a signal.
C6_TeardownReturns ==
    /\ [](/\ tdl.delays <= MAX_ATTEMPTS * ATTEMPT_DELAY
          /\ (tdl.p # 0 /\ tdl.exitedBefore) => (tdl.delays = 0 /\ TeardownSent = 0))
    /\ (InTeardown ~> tdl.done)

\* the teardown of a process that had already exited has returned
C6_Witness ==
    /\ tdl.done /\ tdl.p # 0 /\ tdl.exitedBefore
    /\ os[tdl.p] = "reaped" /\ status[tdl.p] # None

\* C7: _timeout sends SIGTERM and then sets terminated exactly when its
\* liveness check found the process running; otherwise it sends nothing and
\* leaves terminated as it was.
C7_TimeoutCallback ==
    \A p \in Procs :
        LET handling == h_pc # "idle" /\ sigalrm_handler = p IN
        /\ terminated[p] => (fireSaw[p] = "running" /\ Sent(p, "SIGTERM", "_timeout"))
        /\ (fireSaw[p] = "running" /\ ~handling) =>
              (terminated[p] /\ Sent(p, "SIGTERM", "_timeout"))
        /\ (handling /\ h_pc = "mark") => Sent(p, "SIGTERM", "_timeout")
        /\ fireSaw[p] # "running" =>
              (~terminated[p] /\ ~Sent(p, "SIGTERM", "_timeout") /\ ~handling)

\* one callback has terminated its process, another found its process exited
C7_Witness ==
    \E p, q \in Created :
        /\ terminated[p] /\ Sent(p, "SIGTERM", "_timeout")
        /\ fireSaw[q] = "exited" /\ sigs[q] = << >>

\* C8 as claimed: an armed timer belongs to the controller command whose
\* constructor is executing, and a command with timeout <= 0 arms none and is
\* never marked timed-out.
C8_TimerOfCurrentCommand ==
    /\ alarm_pending =>
          (InConstructor /\ sigalrm_handler = cur /\ timeout[cur] > 0)
    /\ \A p \in Created :
          (kind[p] = "controller" /\ timeout[p] <= 0) =>
              (~terminated[p] /\ ~(alarm_pending /\ sigalrm_handler = p))

\* C9: the constructor calls signal.alarm(0) after the wait loop has seen the
\* exit and before it returns, so get_results runs with the timer disarmed;
\* alarm(0) on a timer that has already fired changes nothing.
C9_DisarmBeforeInspect ==
    /\ [](\A p \in Procs :
            /\ disarmed[p] => returncode[p] # None
            /\ (returned[p] /\ timeout[p] > 0) =>
                  (disarmed[p] /\ ~(alarm_pending /\ sigalrm_handler = p))
            /\ result[p] # "unset" => returned[p])
    /\ [][(pc = "ctl_disarm" /\ pc' = "ctl_returned" /\ ~alarm_pending) =>
            (/\ ~alarm_pending'
             /\ UNCHANGED << terminated, returncode, sigs, os, status,
                             sigalrm_handler, h_pc, fireSaw >>)]_vars

\* the result of a command is inspected whose timer had fired before the disarm
C9_Witness ==
    \E p \in Created :
        /\ result[p] # "unset" /\ timeout[p] > 0 /\ disarmed[p]
        /\ fireSaw[p] = "exited"

\* C10 as claimed: a command whose process ended by itself is not marked
\* timed-out when its result is inspected.
C10_NaturalExitNotTimedOut ==
    \A p \in Procs :
        (result[p] # "unset" /\ ExitedOnItsOwn(p)) => ~terminated[p]

----------------------------------------------------------------------------
\* OmbtResults.from_output (ombt_process.py): the captured stdout of a
\* controller command is scanned line by line.
\*
\* A text is the sequence of its lines; the empty text has none.  A line is
\* known by the regular expressions it matches, by the numeric token a metric
\* expression captures and by the message the error expression captures.

\* lines of one captured output
MaxLines == 6

\* a numeric token [0-9]+\.[0-9]+ : its integer part and its fraction digits
TpTokens == {[i |-> 32, f |-> << 5 >>], [i |-> 27, f |-> << 1, 0 >>]}
LatTokens == {[i |-> 10, f |-> << 0, 5 >>]}
NoToken == [i |-> 0, f |-> << 0 >>]

Line(k, tok, msg) == [k |-> k, tok |-> tok, msg |-> msg]

\* "Error: <msg>", the two section headers, a header naming both sides, the
\* two metric lines, and a line no expression matches (an empty line, a
\* metric printed without a fraction, anything else)
Lines ==
    {Line("error", NoToken, "failed")}
    \cup {Line(k, NoToken, "") : k \in {"server", "client", "both", "other"}}
    \cup {Line("throughput", t, "") : t \in TpTokens}
    \cup {Line("latency", t, "") : t \in LatTokens}

\* re.match(r'^Error: (.*)', line)
MatchesError(l) == l.k = "error"
\* re.match(r'^Aggregated .*Server.* results:', line)
MatchesServer(l) == l.k \in {"server", "both"}
\* re.match(r'^Aggregated .*Client.* results:', line)
MatchesClient(l) == l.k \in {"client", "both"}
\* re.match(r'^Aggregate throughput: ([0-9]+\.[0-9]+) msgs/sec', line)
MatchesThroughput(l) == l.k = "throughput"
\* re.match(r'^Latency [0-9]+ samples \(msecs\): Average ([0-9]+\.[0-9]+) StdDev', line)
MatchesLatency(l) == l.k = "latency"

\* float(token), in hundredths
Float(tok) ==
    tok.i * 100 + (IF Len(tok.f) = 1 THEN tok.f[1] * 10 ELSE tok.f[1] * 10 + tok.f[2])

Some(x) == << x >>

\* OmbtResults.OmbtData() and OmbtResults(ombt_controller_cmd)
OmbtData == [throughput |-> 0, latency |-> 0]
OmbtResults == [error_found |-> FALSE, error_message |-> None,
                client_data |-> OmbtData, server_data |-> OmbtData]

\* the locals of from_output before the first line: results, ombt_data = None
ScanStart == [results |-> OmbtResults, ombt_data |-> "None"]

\* "results.error_found = True; results.error_message = error.group(1); continue"
ScanErrorResetsSection(st, l) ==
    [results |-> [st.results EXCEPT !.error_found = TRUE, !.error_message = Some(l.msg)],
     ombt_data |-> "None"]
ScanError(st, l) ==
    [st EXCEPT !.results.error_found = TRUE, !.results.error_message = Some(l.msg)]

\* the section after the header tests: server, elif client, else as before
SectionAfterServerOnly(sec, l) ==
    IF MatchesServer(l) \/ MatchesClient(l) THEN "server_data" ELSE sec
SectionAfter(sec, l) ==
    IF MatchesServer(l) THEN "server_data"
    ELSE IF MatchesClient(l) THEN "client_data"
    ELSE sec

\* "ombt_data.throughput = float(throughput.group(1))"
SetThroughput(res, sec, tok) ==
    IF sec = "server_data" THEN [res EXCEPT !.server_data.throughput = Float(tok)]
    ELSE [res EXCEPT !.client_data.throughput = Float(tok)]

\* "ombt_data.latency = float(latency.group(1))"
SetLatencyAsThroughput(res, sec, tok) == SetThroughput(res, sec, tok)
SetLatency(res, sec, tok) ==
    IF sec = "server_data" THEN [res EXCEPT !.server_data.latency = Float(tok)]
    ELSE [res EXCEPT !.client_data.latency = Float(tok)]

\* one iteration of "for line in ...": the state after line l
Scan(st, l) ==
    IF MatchesError(l) THEN ScanError(st, l)
    ELSE LET sec == SectionAfter(st.ombt_data, l) IN
         IF ~MatchesServer(l) /\ ~MatchesClient(l) /\ st.ombt_data = "None" THEN st
         ELSE IF MatchesThroughput(l)
                THEN [results |-> SetThroughput(st.results, sec, l.tok), ombt_data |-> sec]
         ELSE IF MatchesLatency(l)
                THEN [results |-> SetLatency(st.results, sec, l.tok), ombt_data |-> sec]
         ELSE [st EXCEPT !.ombt_data = sec]

\* the state after the first n lines of the text
RECURSIVE ScanTo(_, _)
ScanTo(text, n) == IF n = 0 THEN ScanStart ELSE Scan(ScanTo(text, n - 1), text[n])

\* "if not stdout: return None"
NotStdoutNever(text) == FALSE
NotStdout(text) == text = << >>

from_output(text) ==
    IF NotStdout(text) THEN None ELSE Some(ScanTo(text, Len(text)).results)

\* the process writes one more line to its stdout
WriteLine(l) ==
    /\ parse.pc = "writing"
    /\ Len(parse.stdout) < parse.limit
    /\ parse' = [parse EXCEPT !.stdout = Append(@, l)]
    /\ UNCHANGED << supVars, thr, sweep >>

\* OmbtResults.from_output(cmd, stdout) is called on what was written
CallFromOutput ==
    /\ parse.pc = "writing"
    /\ parse' = [parse EXCEPT !.pc = "done", !.ret = from_output(parse.stdout)]
    /\ UNCHANGED << supVars, thr, sweep >>

ParseInit ==
    /\ SupervisionInit
    /\ parse = [pc |-> "writing", stdout |-> << >>, limit |-> MaxLines,
                rc |-> RC(0), term |-> FALSE, ret |-> None]
    /\ thr = Idle
    /\ sweep = Idle

ParseNext ==
    \/ \E l \in Lines : WriteLine(l)
    \/ CallFromOutput

ParseSpec == ParseInit /\ [][ParseNext]_vars

\* OmbtController.get_results on a command that wrote a short output: the
\* exit code and the timed-out mark are whatever the constructor left.
MaxResultLines == 1

ExitCodes == {None, RC(0), RC(1), RC(-15)}

\* "if self.returncode != 0 or self.terminated: return None",
\* "return OmbtResults.from_output(self.ombt_controller_cmd, self._result)"
CallGetResults ==
    /\ parse.pc = "writing"
    /\ parse' = [parse EXCEPT !.pc = "done",
                              !.ret = IF ResultsRefused(parse.rc, parse.term)
                                        THEN None
                                        ELSE from_output(parse.stdout)]
    /\ UNCHANGED << supVars, thr, sweep >>

ResultsInit ==
    /\ SupervisionInit
    /\ \E rc \in ExitCodes, term \in BOOLEAN :
           parse = [pc |-> "writing", stdout |-> << >>, limit |-> MaxResultLines,
                    rc |-> rc, term |-> term, ret |-> None]
    /\ thr = Idle
    /\ sweep = Idle

ResultsNext ==
    \/ \E l \in Lines : WriteLine(l)
    \/ CallGetResults

ResultsSpec == ResultsInit /\ [][ResultsNext]_vars

----------------------------------------------------------------------------

\* calculate_threshold (test_smoke_01.py): the bound a metric of a command
\* must keep at a message length.
\*
\* The floats of the code are exact fractions here: a value x is the integer
\* x * Unit, and Unit is chosen so that every division of the code comes out
\* even for the baseline values.
Unit == 63000

Float10(n) == n * (Unit \div 10)

\* THRESHOLD_BASELINE, written in tenths
THRESHOLD_BASELINE ==
    [c \in {"notify", "rpc-call", "rpc-cast", "rpc-fanout"} |->
        CASE c = "notify" -> << 105, 220, 57, 154, 271, 248, 273, 250 >>
          [] c = "rpc-call" -> << 150, 335, 72, 134, 350, 304, 350, 307 >>
          [] c = "rpc-cast" -> << 40, 48, 65, 99, 386, 383, 390, 387 >>
          [] c = "rpc-fanout" -> << 31, 43, 77, 128, 385, 380, 779, 768 >>]

Commands == DOMAIN THRESHOLD_BASELINE

TOLERANCE == 30

LATENCY_CLIENT == 0
LATENCY_SERVER == 2
TPS_CLIENT == 4
TPS_SERVER == 6
Metrics == {LATENCY_CLIENT, LATENCY_SERVER, TPS_CLIENT, TPS_SERVER}

\* "[x*1024 for x in range(1, 65)]"
SweepLengths == {x * 1024 : x \in 1..64}

\* "THRESHOLD_BASELINE.get(cmd)[metric:][:2]"
orig_min_max(cmd, metric) ==
    << Float10(THRESHOLD_BASELINE[cmd][metric + 1]),
       Float10(THRESHOLD_BASELINE[cmd][metric + 2]) >>

\* "v + (v / 100.0 * TOLERANCE)"
LatencyToleranceBelow(v) == v - ((v \div 100) * TOLERANCE)
LatencyTolerance(v) == v + ((v \div 100) * TOLERANCE)

\* "v - (v / 100.0 * TOLERANCE)"
ThroughputTolerance(v) == v - ((v \div 100) * TOLERANCE)

\* "(length-1024) / 1024", a division of integers
StepsFromZero(length) == length \div 1024
Steps(length) == (length - 1024) \div 1024

calculate_threshold(cmd, metric, length) ==
    LET o == orig_min_max(cmd, metric) IN
    IF metric \in {LATENCY_CLIENT, LATENCY_SERVER}
      THEN LET min_max == << LatencyTolerance(o[1]), LatencyTolerance(o[2]) >>
           IN  ((min_max[2] - min_max[1]) \div (64 - 1)) * Steps(length) + min_max[1]
      ELSE LET min_max == << ThroughputTolerance(o[1]), ThroughputTolerance(o[2]) >>
           IN  min_max[1] - ((min_max[1] - min_max[2]) \div (64 - 1)) * Steps(length)

\* one call calculate_threshold(cmd, metric, length) of execute_ombt_command
Calculate ==
    /\ thr.pc = "call"
    /\ thr' = [thr EXCEPT !.pc = "done",
                          !.value = calculate_threshold(thr.cmd, thr.metric, thr.length)]
    /\ UNCHANGED << supVars, parse, sweep >>

ThresholdInit ==
    /\ SupervisionInit
    /\ parse = Idle
    /\ \E c \in Commands, m \in Metrics, l \in SweepLengths :
           thr = [pc |-> "call", cmd |-> c, metric |-> m, length |-> l, value |-> 0]
    /\ sweep = Idle

ThresholdNext == Calculate

ThresholdSpec == ThresholdInit /\ [][ThresholdNext]_vars

----------------------------------------------------------------------------

\* The sweep (test_smoke_01.py): pytest calls test_ombt2_modes once for each
\* message length; an item is one such call.  The runner's stop-at-first-
\* failure option is an input of the run: nothing in the sources sets it.

\* message lengths of one sweep: the first MaxLengths of SweepLengths
MaxLengths == 2

\* what test_ombt2_modes does, in order: eight controller commands, then the
\* allocator check of each router
PlanAllocatorsEarly ==
    << [what |-> "command", router |-> 1, cmd |-> "notify"],
       [what |-> "command", router |-> 1, cmd |-> "rpc-call"],
       [what |-> "command", router |-> 1, cmd |-> "rpc-cast"],
       [what |-> "command", router |-> 1, cmd |-> "rpc-fanout"],
       [what |-> "allocator", router |-> 1, cmd |-> "query"],
       [what |-> "command", router |-> 2, cmd |-> "notify"],
       [what |-> "command", router |-> 2, cmd |-> "rpc-call"],
       [what |-> "command", router |-> 2, cmd |-> "rpc-cast"],
       [what |-> "command", router |-> 2, cmd |-> "rpc-fanout"],
       [what |-> "allocator", router |-> 2, cmd |-> "query"] >>
Plan ==
    << [what |-> "command", router |-> 1, cmd |-> "notify"],
       [what |-> "command", router |-> 1, cmd |-> "rpc-call"],
       [what |-> "command", router |-> 1, cmd |-> "rpc-cast"],
       [what |-> "command", router |-> 1, cmd |-> "rpc-fanout"],
       [what |-> "command", router |-> 2, cmd |-> "notify"],
       [what |-> "command", router |-> 2, cmd |-> "rpc-call"],
       [what |-> "command", router |-> 2, cmd |-> "rpc-cast"],
       [what |-> "command", router |-> 2, cmd |-> "rpc-fanout"],
       [what |-> "allocator", router |-> 1, cmd |-> "query"],
       [what |-> "allocator", router |-> 2, cmd |-> "query"] >>

\* one entry of the record of what the sweep did
Event(step, len, ok) ==
    [what |-> step.what, router |-> step.router, cmd |-> step.cmd,
     length |-> len * 1024, ok |-> ok]

\* a failing assert raises: the rest of the function is not executed
AssertRaisesNever(ok) == FALSE
AssertRaises(ok) == ~ok

ItemOver == sweep.aborted \/ sweep.step > Len(Plan)

\* the step at sweep.step was executed and its assertions evaluated to ok
AfterStep(ok) ==
    LET raised == AssertRaises(ok) IN
    sweep' = [sweep EXCEPT
                 !.log = Append(@, Event(Plan[sweep.step], sweep.len, ok)),
                 !.step = IF raised THEN @ ELSE @ + 1,
                 !.aborted = raised,
                 !.failed = @ \/ raised]

\* "assert(execute_ombt_command(router_url, <command>, length))"
RunCommand(ok) ==
    /\ sweep.pc = "item"
    /\ ~ItemOver
    /\ Plan[sweep.step].what = "command"
    /\ AfterStep(ok)
    /\ UNCHANGED << supVars, parse, thr >>

\* RouterContainerQuery, AllocatorInfo.from_qdmanage_json_out and
\* "assert(len(exceeded_list) == 0)" for every allocator of the router
AllocatorCheck(ok) ==
    /\ sweep.pc = "item"
    /\ ~ItemOver
    /\ Plan[sweep.step].what = "allocator"
    /\ AfterStep(ok)
    /\ UNCHANGED << supVars, parse, thr >>

\* the runner goes on after an item: with the next length, unless it was told
\* to stop at the first failure and an item has failed
MoreItems ==
    /\ sweep.len < MaxLengths
    /\ ~(sweep.exitfirst /\ sweep.failed)

NextItem ==
    /\ sweep.pc = "item"
    /\ ItemOver
    /\ MoreItems
    /\ sweep' = [sweep EXCEPT !.len = @ + 1, !.step = 1, !.aborted = FALSE]
    /\ UNCHANGED << supVars, parse, thr >>

\* set_up, the module fixture: registers the finalizer first, then starts the
\* daemons; started tells whether all of them could be launched
set_up(started) ==
    /\ sweep.pc = "set_up"
    /\ sweep' = [sweep EXCEPT !.pc = IF started THEN "item" ELSE "errored",
                              !.up = started,
                              !.failed = ~started]
    /\ UNCHANGED << supVars, parse, thr >>

\* the module is over for the runner: the finalizers of its fixture run,
\* whether the items passed, failed or could not be set up
ModuleOverOnlyOnSuccess ==
    /\ sweep.pc = "item" /\ ItemOver /\ ~MoreItems
    /\ ~sweep.failed
ModuleOver ==
    \/ sweep.pc = "item" /\ ItemOver /\ ~MoreItems
    \/ sweep.pc = "errored"

\* tear_down, the finalizer of the module fixture: the shutdown command
tear_down ==
    /\ ModuleOver
    /\ sweep' = [sweep EXCEPT
                    !.pc = "finished",
                    !.log = Append(@, [what |-> "shutdown", router |-> 1,
                                       cmd |-> "shutdown", length |-> 0, ok |-> TRUE])]
    /\ UNCHANGED << supVars, parse, thr >>

SweepInit ==
    /\ SupervisionInit
    /\ parse = Idle
    /\ thr = Idle
    /\ \E x \in BOOLEAN :
           sweep = [pc |-> "set_up", exitfirst |-> x, len |-> 1, step |-> 1,
                    up |-> FALSE, aborted |-> FALSE, failed |-> FALSE,
                    log |-> << >>]

SweepNext ==
    \/ \E started \in BOOLEAN : set_up(started)
    \/ \E ok \in BOOLEAN : RunCommand(ok)
    \/ \E ok \in BOOLEAN : AllocatorCheck(ok)
    \/ NextItem
    \/ tear_down

SweepSpec == SweepInit /\ [][SweepNext]_vars

\* the runner does not stop on its own before the module is torn down
FairSweepSpec == SweepSpec /\ WF_vars(SweepNext)

----------------------------------------------------------------------------

\* execute_ombt_command (test_smoke_01.py): one controller command is run, its
\* output parsed and the assertions evaluated.  The constructor has returned:
\* the process has an exit code and may be marked timed-out.

\* the lines a command writes for one side
Section(header, tp, lat) ==
    << Line(header, NoToken, ""), Line("throughput", tp, ""), Line("latency", lat, "") >>

\* outputs of a command: both sides reported, in either order; the same with an
\* error line in front; one side only; nothing at all
Outputs ==
    LET both == UNION {{Section("server", a, l) \o Section("client", b, l),
                        Section("client", a, l) \o Section("server", b, l)} :
                           a \in TpTokens, b \in TpTokens, l \in LatTokens}
    IN  both
        \cup {<< Line("error", NoToken, "failed") >> \o t : t \in both}
        \cup {Section("server", a, l) : a \in TpTokens, l \in LatTokens}
        \cup {<< >>}

\* Process.completed_successfully, after the wait loop has seen the exit
completed_successfully(rc) == rc = RC(0)

\* a float of the parser (hundredths) against a float of calculate_threshold
AsThreshold(v) == v * (Unit \div 100)

\* "assert(latency <= calculate_threshold(...))"
LatencyWithinAlways(v, bound) == TRUE
LatencyWithin(v, bound) == AsThreshold(v) <= bound

\* "assert(throughput >= calculate_threshold(...))"
ThroughputWithin(v, bound) == AsThreshold(v) >= bound

\* the asserts of execute_ombt_command, in order; TRUE when none raises
AssertionsHold(rc, results, cmd, length) ==
    /\ completed_successfully(rc)
    /\ results # None
    /\ results[1].error_found = FALSE
    /\ LatencyWithin(results[1].client_data.latency,
                     calculate_threshold(cmd, LATENCY_CLIENT, length))
    /\ ThroughputWithin(results[1].client_data.throughput,
                        calculate_threshold(cmd, TPS_CLIENT, length))
    /\ LatencyWithin(results[1].server_data.latency,
                     calculate_threshold(cmd, LATENCY_SERVER, length))
    /\ ThroughputWithin(results[1].server_data.throughput,
                        calculate_threshold(cmd, TPS_SERVER, length))

execute_ombt_command ==
    /\ parse.pc = "exited"
    /\ thr.pc = "call"
    /\ LET ombt_results == IF ResultsRefused(parse.rc, parse.term)
                             THEN None
                             ELSE from_output(parse.stdout)
       IN  /\ parse' = [parse EXCEPT !.pc = "done", !.ret = ombt_results]
           /\ thr' = [thr EXCEPT
                         !.pc = "done",
                         !.outcome = IF AssertionsHold(parse.rc, ombt_results,
                                                       thr.cmd, thr.length)
                                       THEN "True" ELSE "AssertionError"]
    /\ UNCHANGED << supVars, sweep >>

ExecInit ==
    /\ SupervisionInit
    /\ \E rc \in ExitCodes \ {None}, term \in BOOLEAN, text \in Outputs :
           parse = [pc |-> "exited", stdout |-> text, limit |-> Len(text),
                    rc |-> rc, term |-> term, ret |-> None]
    /\ \E c \in Commands, l \in SweepLengths :
           thr = [pc |-> "call", cmd |-> c, length |-> l, outcome |-> "none"]
    /\ sweep = Idle

ExecNext == execute_ombt_command

ExecSpec == ExecInit /\ [][ExecNext]_vars

----------------------------------------------------------------------------

\* AllocatorInfo (router_data.py): the allocator entities a router reports,
\* parsed from the JSON output of qdmanage, and their static thresholds.

\* objects of one qdmanage output
MaxObjects == 2

AllocatorType == "org.apache.qpid.dispatch.allocator"

\* AllocatorInfo.__init__ before the keyword arguments are applied
AllocatorDefaults ==
    [heldByThreads |-> 0, typeSize |-> 0, transferBatchSize |-> 0,
     globalFreeListMax |-> 0, batchesRebalancedToGlobal |-> 0, typeName |-> None,
     batchesRebalancedToThreads |-> 0, totalFreeToHeap |-> 0, localFreeListMax |-> 0,
     totalAllocFromHeap |-> 0, type |-> None, identity |-> None, name |-> None]

\* "for key, value in kwargs.items(): setattr(self, key, value)"
AllocatorInfo(d) ==
    [k \in DOMAIN AllocatorDefaults \cup DOMAIN d |->
        IF k \in DOMAIN d THEN d[k] ELSE AllocatorDefaults[k]]

\* "if d['type'] == 'org.apache.qpid.dispatch.allocator'"
IsAllocatorAny(d) == TRUE
IsAllocator(d) == d["type"] = AllocatorType

\* "[AllocatorInfo(**d) for d in json.loads(...) if d['type'] == ...]"
from_qdmanage_json_out(objects) ==
    LET kept == SelectSeq(objects, IsAllocator)
    IN  [i \in 1..Len(kept) |-> AllocatorInfo(kept[i])]

\* AllocatorInfo.THRESHOLDS
THRESHOLDS ==
    [c \in {"qd_bitmask_t", "qd_buffer_t", "qd_composed_field_t",
             "qd_composite_t", "qd_connection_t", "qd_connector_t",
             "qd_deferred_call_t", "qd_hash_handle_t", "qd_hash_item_t",
             "qd_iterator_t", "qd_link_ref_t", "qd_link_t",
             "qd_listener_t", "qd_log_entry_t", "qd_message_content_t",
             "qd_message_t", "qd_node_t", "qd_parsed_field_t",
             "qd_parsed_turbo_t", "qd_parse_node_t", "qdr_action_t",
             "qdr_address_config_t", "qdr_address_t", "qdr_connection_info_t",
             "qdr_connection_t", "qdr_connection_work_t", "qdr_delivery_ref_t",
             "qdr_delivery_t", "qdr_error_t", "qdr_field_t",
             "qdr_general_work_t", "qdr_link_ref_t", "qdr_link_t",
             "qdr_link_work_t", "qdr_node_t", "qdr_query_t",
             "qdr_terminus_t", "qd_timer_t", "qdtm_router_t"} |->
         CASE c = "qd_bitmask_t" -> [totalAllocFromHeap |-> 512, heldByThreads |-> 512]
          [] c = "qd_buffer_t" -> [totalAllocFromHeap |-> 768, heldByThreads |-> 512]
          [] c = "qd_composed_field_t" -> [totalAllocFromHeap |-> 256, heldByThreads |-> 256]
          [] c = "qd_composite_t" -> [totalAllocFromHeap |-> 256, heldByThreads |-> 256]
          [] c = "qd_connection_t" -> [totalAllocFromHeap |-> 128, heldByThreads |-> 128]
          [] c = "qd_connector_t" -> [totalAllocFromHeap |-> 128, heldByThreads |-> 128]
          [] c = "qd_deferred_call_t" -> [totalAllocFromHeap |-> 256, heldByThreads |-> 256]
          [] c = "qd_hash_handle_t" -> [totalAllocFromHeap |-> 512, heldByThreads |-> 512]
          [] c = "qd_hash_item_t" -> [totalAllocFromHeap |-> 512, heldByThreads |-> 512]
          [] c = "qd_iterator_t" -> [totalAllocFromHeap |-> 512, heldByThreads |-> 512]
          [] c = "qd_link_ref_t" -> [totalAllocFromHeap |-> 384, heldByThreads |-> 256]
          [] c = "qd_link_t" -> [totalAllocFromHeap |-> 768, heldByThreads |-> 768]
          [] c = "qd_listener_t" -> [totalAllocFromHeap |-> 128, heldByThreads |-> 128]
          [] c = "qd_log_entry_t" -> [totalAllocFromHeap |-> 2048, heldByThreads |-> 2048]
          [] c = "qd_message_content_t" -> [totalAllocFromHeap |-> 256, heldByThreads |-> 256]
          [] c = "qd_message_t" -> [totalAllocFromHeap |-> 512, heldByThreads |-> 512]
          [] c = "qd_node_t" -> [totalAllocFromHeap |-> 128, heldByThreads |-> 128]
          [] c = "qd_parsed_field_t" -> [totalAllocFromHeap |-> 256, heldByThreads |-> 256]
          [] c = "qd_parsed_turbo_t" -> [totalAllocFromHeap |-> 256, heldByThreads |-> 256]
          [] c = "qd_parse_node_t" -> [totalAllocFromHeap |-> 256, heldByThreads |-> 256]
          [] c = "qdr_action_t" -> [totalAllocFromHeap |-> 512, heldByThreads |-> 256]
          [] c = "qdr_address_config_t" -> [totalAllocFromHeap |-> 128, heldByThreads |-> 128]
          [] c = "qdr_address_t" -> [totalAllocFromHeap |-> 256, heldByThreads |-> 256]
          [] c = "qdr_connection_info_t" -> [totalAllocFromHeap |-> 256, heldByThreads |-> 256]
          [] c = "qdr_connection_t" -> [totalAllocFromHeap |-> 256, heldByThreads |-> 256]
          [] c = "qdr_connection_work_t" -> [totalAllocFromHeap |-> 512, heldByThreads |-> 512]
          [] c = "qdr_delivery_ref_t" -> [totalAllocFromHeap |-> 512, heldByThreads |-> 512]
          [] c = "qdr_delivery_t" -> [totalAllocFromHeap |-> 512, heldByThreads |-> 512]
          [] c = "qdr_error_t" -> [totalAllocFromHeap |-> 512, heldByThreads |-> 512]
          [] c = "qdr_field_t" -> [totalAllocFromHeap |-> 512, heldByThreads |-> 512]
          [] c = "qdr_general_work_t" -> [totalAllocFromHeap |-> 512, heldByThreads |-> 512]
          [] c = "qdr_link_ref_t" -> [totalAllocFromHeap |-> 1536, heldByThreads |-> 1536]
          [] c = "qdr_link_t" -> [totalAllocFromHeap |-> 1024, heldByThreads |-> 1024]
          [] c = "qdr_link_work_t" -> [totalAllocFromHeap |-> 512, heldByThreads |-> 512]
          [] c = "qdr_node_t" -> [totalAllocFromHeap |-> 128, heldByThreads |-> 128]
          [] c = "qdr_query_t" -> [totalAllocFromHeap |-> 128, heldByThreads |-> 128]
          [] c = "qdr_terminus_t" -> [totalAllocFromHeap |-> 512, heldByThreads |-> 512]
          [] c = "qd_timer_t" -> [totalAllocFromHeap |-> 256, heldByThreads |-> 256]
          [] c = "qdtm_router_t" -> [totalAllocFromHeap |-> 128, heldByThreads |-> 128]]

\* "if self.__dict__[key] > value"
ExceedsOrEquals(observed, limit) == observed >= limit
Exceeds(observed, limit) == observed > limit

\* "for (key, value) in threshold.iteritems()", over the keys not yet visited
RECURSIVE ExceedsList(_, _, _)
ExceedsList(info, threshold, keys) ==
    IF keys = {} THEN << >>
    ELSE LET key == CHOOSE k \in keys : TRUE
             rest == ExceedsList(info, threshold, keys \ {key})
         IN  IF Exceeds(info[key], threshold[key])
               THEN << << key, info[key], threshold[key] >> >> \o rest
               ELSE rest

\* "threshold = AllocatorInfo.THRESHOLDS.get(self.typeName)": None for a
\* typeName that is no key, and None has no iteritems
threshold_exceeds_list(info) ==
    IF info.typeName \in DOMAIN THRESHOLDS
      THEN [raised |-> "no",
            list |-> ExceedsList(info, THRESHOLDS[info.typeName],
                                 DOMAIN THRESHOLDS[info.typeName])]
      ELSE [raised |-> "AttributeError", list |-> << >>]

\* what one object of the output may be: its type, its typeName, and two
\* counters, each present or not
JsonObjects ==
    {[type |-> t, typeName |-> n] @@ a @@ h :
        t \in {AllocatorType, "org.apache.qpid.dispatch.router.link"},
        n \in {"qd_bitmask_t", "qd_connection_t", "qd_unlisted_t"},
        a \in {<< >>} \cup {[totalAllocFromHeap |-> v] : v \in {10, 513}},
        h \in {<< >>} \cup {[heldByThreads |-> v] : v \in {512, 513}}}

\* the router writes one more object into the output of the query
ReportObject(d) ==
    /\ parse.pc = "query"
    /\ Len(parse.json) < MaxObjects
    /\ parse' = [parse EXCEPT !.json = Append(@, d)]
    /\ UNCHANGED << supVars, thr, sweep >>

\* "allocator_info_list = AllocatorInfo.from_qdmanage_json_out(router_query.result)"
ParseAllocators ==
    /\ parse.pc = "query"
    /\ parse' = [parse EXCEPT !.pc = "parsed", !.ret = from_qdmanage_json_out(parse.json)]
    /\ thr' = [pc |-> "loop", i |-> 0, raised |-> "no", list |-> << >>]
    /\ UNCHANGED << supVars, sweep >>

\* one turn of "for allocator_info in allocator_info_list":
\* threshold_exceeds_list() and "assert(len(exceeded_list) == 0)"
CheckAllocator ==
    /\ parse.pc = "parsed"
    /\ thr.pc = "loop"
    /\ thr.i < Len(parse.ret)
    /\ LET r == threshold_exceeds_list(parse.ret[thr.i + 1])
       IN  thr' = [pc |-> IF r.raised # "no" THEN "raised"
                          ELSE IF Len(r.list) # 0 THEN "AssertionError"
                          ELSE "loop",
                   i |-> thr.i + 1, raised |-> r.raised, list |-> r.list]
    /\ UNCHANGED << supVars, parse, sweep >>

AllocInit ==
    /\ SupervisionInit
    /\ parse = [pc |-> "query", json |-> << >>, ret |-> << >>]
    /\ thr = Idle
    /\ sweep = Idle

AllocNext ==
    \/ \E d \in JsonObjects : ReportObject(d)
    \/ ParseAllocators
    \/ CheckAllocator

AllocSpec == AllocInit /\ [][AllocNext]_vars

----------------------------------------------------------------------------

RunningControllers ==
    {p \in Procs : kind[p] = "controller" /\ os[p] \in {"running", "dying"}}

C13_OneControllerAtATime ==
    /\ Cardinality(RunningControllers) <= 1
    /\ \A p \in RunningControllers :
          cur = p /\ pc \in {"ctl_wait", "ctl_sleep"}
    /\ \A p \in Procs :
          returned[p] => (returncode[p] # None /\ os[p] = "reaped")
    /\ \A p \in Procs :
          (kind[p] = "daemon" /\ sigs[p] # << >>) =>
              (pc \in {"atexit", "td_check", "td_sleep", "td_final"})

\* a controller waits for its process while a daemon started before it runs
C13_Witness ==
    \E d, c \in Created :
        /\ kind[d] = "daemon" /\ os[d] = "running"
        /\ kind[c] = "controller" /\ os[c] = "running" /\ pc = "ctl_sleep"


\* C12: get_results returns a result object only when the exit code is 0 and
\* the command is not marked timed-out; with a non-zero exit code, a timed-out
\* mark or no exit code yet it returns None.
C12_ResultsOnlyOnCleanExit ==
    parse.pc = "done" =>
        /\ parse.ret # None => (parse.rc = RC(0) /\ ~parse.term)
        /\ (parse.rc # RC(0) \/ parse.term) => parse.ret = None

\* a result object was returned, for a command that exited with 0 in time
C12_Witness ==
    /\ parse.pc = "done"
    /\ parse.ret # None
    /\ parse.rc = RC(0)
    /\ ~parse.term


----------------------------------------------------------------------------
\* Vocabulary for the claims about from_output: what a text looks like, told
\* from the lines themselves.

HeaderLine(l) == l.k \in {"server", "client", "both"}
MetricLine(l) == l.k \in {"throughput", "latency"}

\* the sections a header line names
NamedBy(l) ==
    (IF l.k \in {"server", "both"} THEN {"server_data"} ELSE {})
    \cup (IF l.k \in {"client", "both"} THEN {"client_data"} ELSE {})

\* the position of the most recent header before line i, 0 when there is none
LastHeaderBefore(text, i) ==
    LET H == {j \in 1..(i - 1) : HeaderLine(text[j])}
    IN  IF H = {} THEN 0 ELSE CHOOSE j \in H : \A k \in H : k <= j

\* the lines of kind k in the section opened by the header at position h
SectionLines(text, h, k) ==
    {i \in (h + 1)..Len(text) : text[i].k = k /\ LastHeaderBefore(text, i) = h}

KindPositions(text, k) == {i \in 1..Len(text) : text[i].k = k}

\* one server and one client section, each header followed by one throughput
\* and one latency line before the next header; no error line
OneSectionEach(text) ==
    /\ Cardinality(KindPositions(text, "server")) = 1
    /\ Cardinality(KindPositions(text, "client")) = 1
    /\ KindPositions(text, "both") = {}
    /\ KindPositions(text, "error") = {}
    /\ \A h \in KindPositions(text, "server") \cup KindPositions(text, "client") :
           /\ Cardinality(SectionLines(text, h, "throughput")) = 1
           /\ Cardinality(SectionLines(text, h, "latency")) = 1

\* the value of the one metric line of kind k in the section of header kind hk
SectionToken(text, hk, k) ==
    LET h == CHOOSE j \in KindPositions(text, hk) : TRUE
        i == CHOOSE j \in SectionLines(text, h, k) : TRUE
    IN  Float(text[i].tok)

\* C14: for an output with one server and one client aggregate section, in
\* either order, each header followed by one throughput and one latency line,
\* from_output returns a result whose four metric fields are the four numeric
\* tokens of the corresponding lines, with error_found False.
C14_WellFormedOutputParsed ==
    (parse.pc = "done" /\ OneSectionEach(parse.stdout)) =>
        parse.ret = Some(
            [error_found |-> FALSE, error_message |-> None,
             server_data |->
                 [throughput |-> SectionToken(parse.stdout, "server", "throughput"),
                  latency |-> SectionToken(parse.stdout, "server", "latency")],
             client_data |->
                 [throughput |-> SectionToken(parse.stdout, "client", "throughput"),
                  latency |-> SectionToken(parse.stdout, "client", "latency")]])

\* a well-formed output with the client section first, and different tokens
\* in the two sections, was parsed
C14_Witness ==
    /\ parse.pc = "done"
    /\ OneSectionEach(parse.stdout)
    /\ parse.stdout[1].k = "client"
    /\ parse.ret # None
    /\ parse.ret[1].client_data # parse.ret[1].server_data


\* the sections no header line of the text names
Unnamed(text) ==
    {sec \in {"server_data", "client_data"} :
        \A i \in 1..Len(text) : sec \notin NamedBy(text[i])}

\* C15: a metric line before any section header changes nothing; after a
\* header a metric line sets its field on the section named by the most recent
\* header and on nothing else; a section whose header never appears keeps
\* throughput 0 and latency 0 in the returned result.
C15_SectionGating ==
    parse.pc = "done" =>
        /\ \A i \in 1..Len(parse.stdout) :
               LET l == parse.stdout[i]
                   h == LastHeaderBefore(parse.stdout, i)
                   before == ScanTo(parse.stdout, i - 1).results
                   after == ScanTo(parse.stdout, i).results
               IN  MetricLine(l) =>
                       IF h = 0 THEN after = before
                       ELSE \E sec \in NamedBy(parse.stdout[h]) :
                                after = [before EXCEPT ![sec][l.k] = Float(l.tok)]
        /\ parse.ret # None =>
               \A sec \in Unnamed(parse.stdout) : parse.ret[1][sec] = OmbtData

\* a text was parsed with a metric line before the first header, a metric line
\* in the client section, and no server header at all
C15_Witness ==
    /\ parse.pc = "done"
    /\ Len(parse.stdout) >= 3
    /\ MetricLine(parse.stdout[1])
    /\ KindPositions(parse.stdout, "client") # {}
    /\ Unnamed(parse.stdout) = {"server_data"}
    /\ parse.ret # None
    /\ parse.ret[1].client_data # OmbtData

\* C16: an error line sets error_found and error_message and has no other
\* effect (the active section and the metrics stay); scanning continues with
\* the lines after it; error_found, once set, is never cleared by a later line.
C16_ErrorLine ==
    parse.pc = "done" =>
        \A i \in 1..Len(parse.stdout) :
            LET l == parse.stdout[i]
                h == LastHeaderBefore(parse.stdout, i)
                before == ScanTo(parse.stdout, i - 1)
                after == ScanTo(parse.stdout, i)
            IN  /\ l.k = "error" =>
                       after = [before EXCEPT !.results.error_found = TRUE,
                                              !.results.error_message = Some(l.msg)]
                /\ before.results.error_found =>
                       /\ after.results.error_found
                       /\ parse.ret # None /\ parse.ret[1].error_found
                       /\ (MetricLine(l) /\ h > 0) =>
                              \E sec \in NamedBy(parse.stdout[h]) :
                                  after.results[sec][l.k] = Float(l.tok)

\* a text was parsed with an error line between a header and a metric line of
\* its section
C16_Witness ==
    /\ parse.pc = "done"
    /\ \E i \in 2..(Len(parse.stdout) - 1) :
           /\ HeaderLine(parse.stdout[i - 1])
           /\ parse.stdout[i].k = "error"
           /\ MetricLine(parse.stdout[i + 1])
    /\ parse.ret # None
    /\ parse.ret[1].error_found
    /\ parse.ret[1].error_message = Some("failed")

\* C17: from_output returns null exactly when the text is empty; for a
\* non-empty text it returns a result even when no line matches anything, and
\* then all metrics are 0 and error_found is False.
C17_NullOnlyForEmptyText ==
    parse.pc = "done" =>
        /\ parse.ret = None <=> parse.stdout = << >>
        /\ (parse.stdout # << >> /\ \A i \in 1..Len(parse.stdout) : parse.stdout[i].k = "other")
               => parse.ret = Some(OmbtResults)

\* from_output was called on the empty text and returned null
C17_Witness ==
    /\ parse.pc = "done"
    /\ parse.stdout = << >>
    /\ parse.ret = None


----------------------------------------------------------------------------
\* Vocabulary for the claims about calculate_threshold: the specification's
\* formula, in exact fractions with the denominator 100 * (L1 - L0).

L0 == 1024
L1 == 65536
IsLatency(metric) == metric \in {LATENCY_CLIENT, LATENCY_SERVER}

\* v' = v * (1 + T/100) for a latency, v * (1 - T/100) for a throughput, in
\* hundredths; which = 1 for the baseline at L0, 2 for the baseline at L1
Adjusted100(cmd, metric, which) ==
    LET v10 == THRESHOLD_BASELINE[cmd][metric + which]
    IN  IF IsLatency(metric) THEN (v10 * (100 + TOLERANCE)) \div 10
        ELSE (v10 * (100 - TOLERANCE)) \div 10

\* the numerator of the interpolated bound over 100 * (L1 - L0)
Interpolated(cmd, metric, length) ==
    LET v0 == Adjusted100(cmd, metric, 1)
        v1 == Adjusted100(cmd, metric, 2)
    IN  IF IsLatency(metric)
          THEN v0 * (L1 - L0) + (v1 - v0) * (length - L0)
          ELSE v0 * (L1 - L0) - (v0 - v1) * (length - L0)

RECURSIVE GCD(_, _)
GCD(a, b) == IF b = 0 THEN a ELSE GCD(b, a % b)

\* n1/d1 = n2/d2, for positive denominators
SameFraction(n1, d1, n2, d2) ==
    LET g == GCD(d1, d2) IN n1 * (d2 \div g) = n2 * (d1 \div g)

\* C18: over the sweep lengths between 1024 and 65536 the bound is monotonic
\* in the length (a latency bound never decreases, a throughput bound never
\* increases), and it equals the tolerance-adjusted baseline v0' at 1024 and
\* v1' at 65536.
C18_ThresholdMonotonic ==
    thr.pc = "done" =>
        /\ \A l \in SweepLengths :
               l >= thr.length =>
                   IF IsLatency(thr.metric)
                     THEN calculate_threshold(thr.cmd, thr.metric, l) >= thr.value
                     ELSE calculate_threshold(thr.cmd, thr.metric, l) <= thr.value
        /\ thr.length = L0 =>
               thr.value * 100 = Adjusted100(thr.cmd, thr.metric, 1) * Unit
        /\ thr.length = L1 =>
               thr.value * 100 = Adjusted100(thr.cmd, thr.metric, 2) * Unit

\* a latency bound was computed at the upper end, strictly above the bound of
\* the lower end
C18_Witness ==
    /\ thr.pc = "done"
    /\ IsLatency(thr.metric)
    /\ thr.length = L1
    /\ thr.value > calculate_threshold(thr.cmd, thr.metric, L0)

\* C19: for every command, metric index and sweep length the bound equals the
\* specification's interpolation: v0' + (v1' - v0') * (length - L0) / (L1 - L0)
\* with v' = v * (1 + T/100) for a latency, v0' - (v0' - v1') * (length - L0) /
\* (L1 - L0) with v' = v * (1 - T/100) for a throughput; T = 30, L0 = 1024,
\* L1 = 65536.
C19_ThresholdIsInterpolation ==
    thr.pc = "done" =>
        SameFraction(thr.value, Unit,
                     Interpolated(thr.cmd, thr.metric, thr.length), 100 * (L1 - L0))

\* a throughput bound was computed strictly between the two ends of the sweep
C19_Witness ==
    /\ thr.pc = "done"
    /\ ~IsLatency(thr.metric)
    /\ thr.length \notin {L0, L1}
    /\ thr.value < calculate_threshold(thr.cmd, thr.metric, L0)
    /\ thr.value > calculate_threshold(thr.cmd, thr.metric, L1)


----------------------------------------------------------------------------
\* Vocabulary for the claims about the sweep: positions of its record

Failures == {j \in 1..Len(sweep.log) : ~sweep.log[j].ok}

\* C20 as stated: after the first assertion failure no further benchmark
\* controller command is spawned, neither for the same message length nor for
\* a later one.
C20_NoCommandAfterFailure ==
    \A j \in Failures : \A k \in (j + 1)..Len(sweep.log) :
        sweep.log[k].what # "command"

\* C20, amended: an assertion failure ends the item of its message length (no
\* further controller command and no allocator check for that length); the
\* sweep goes on with the next message length unless the runner was told to
\* stop at the first failure, so that without that option, once the daemons
\* are up, every message length is begun.
C20_FailureEndsItsLength ==
    /\ \A j \in Failures : \A k \in (j + 1)..Len(sweep.log) :
           /\ sweep.log[k].length # sweep.log[j].length
           /\ sweep.exitfirst => sweep.log[k].what = "shutdown"
    /\ (sweep.pc = "finished" /\ sweep.up /\ ~sweep.exitfirst) =>
           \A l \in 1..MaxLengths : \E k \in 1..Len(sweep.log) :
               sweep.log[k].what = "command" /\ sweep.log[k].length = l * 1024

\* a command of the first length failed, and a command of the next length
\* was spawned afterwards
C20_Witness ==
    \E j \in Failures : \E k \in (j + 1)..Len(sweep.log) :
        /\ sweep.log[j].what = "command"
        /\ sweep.log[k].what = "command"
        /\ sweep.log[k].length > sweep.log[j].length


Shutdowns == {k \in 1..Len(sweep.log) : sweep.log[k].what = "shutdown"}

\* C21: on completion of the sweep, whether it succeeded or failed at any
\* point, exactly one shutdown controller command is sent to endpoint 1, and
\* it is sent after the last benchmark controller command has finished.
C21_OneShutdownAtTheEnd ==
    /\ [](/\ sweep.pc # "finished" => Shutdowns = {}
          /\ sweep.pc = "finished" =>
                 /\ Shutdowns = {Len(sweep.log)}
                 /\ sweep.log[Len(sweep.log)].router = 1)
    /\ <>(sweep.pc = "finished")

\* a sweep that failed in its last item was torn down with one shutdown
\* command after its commands
C21_Witness ==
    /\ sweep.pc = "finished"
    /\ sweep.failed
    /\ sweep.aborted
    /\ Len(sweep.log) > 1
    /\ sweep.log[Len(sweep.log) - 1].what = "command"
    /\ Shutdowns = {Len(sweep.log)}


----------------------------------------------------------------------------
\* C22: a controller command run passes only if the process completed with
\* exit code 0, a result was parsed, no error was reported, client and server
\* latency are at most their bounds and client and server throughput at least
\* their bounds; a command marked timed-out always fails the assertions.
C22_PassOnlyIfAllHold ==
    (parse.pc = "done" /\ thr.pc = "done") =>
        /\ thr.outcome = "True" =>
               /\ parse.rc = RC(0)
               /\ parse.ret # None
               /\ ~parse.ret[1].error_found
               /\ \A side \in {"client_data", "server_data"} :
                      LET lat == IF side = "client_data" THEN LATENCY_CLIENT
                                 ELSE LATENCY_SERVER
                          tps == IF side = "client_data" THEN TPS_CLIENT ELSE TPS_SERVER
                      IN  /\ parse.ret[1][side].latency * Unit
                                <= calculate_threshold(thr.cmd, lat, thr.length) * 100
                          /\ parse.ret[1][side].throughput * Unit
                                >= calculate_threshold(thr.cmd, tps, thr.length) * 100
        /\ parse.term => thr.outcome = "AssertionError"

\* a command that exited with 0 but was marked timed-out failed the
\* assertions, although its output was within every bound
C22_Witness ==
    /\ parse.pc = "done"
    /\ thr.pc = "done"
    /\ parse.term
    /\ parse.rc = RC(0)
    /\ thr.outcome = "AssertionError"
    /\ from_output(parse.stdout) # None
    /\ AssertionsHold(parse.rc, from_output(parse.stdout), thr.cmd, thr.length)


----------------------------------------------------------------------------
\* the order the sweep is to keep within one message length
FixedOrder ==
    << << "command", 1, "notify" >>, << "command", 1, "rpc-call" >>,
       << "command", 1, "rpc-cast" >>, << "command", 1, "rpc-fanout" >>,
       << "command", 2, "notify" >>, << "command", 2, "rpc-call" >>,
       << "command", 2, "rpc-cast" >>, << "command", 2, "rpc-fanout" >>,
       << "allocator", 1, "query" >>, << "allocator", 2, "query" >> >>

\* the place of a recorded step in that order
Place(e) == CHOOSE i \in 1..Len(FixedOrder) : FixedOrder[i] = << e.what, e.router, e.cmd >>

SweepSteps == {k \in 1..Len(sweep.log) : sweep.log[k].what # "shutdown"}

\* C23: for each message length the eight commands run in the order notify,
\* rpc-call, rpc-cast, rpc-fanout against endpoint 1 and then against endpoint
\* 2; the allocator counters of router 1 and then of router 2 are checked only
\* after all eight commands of that length have passed; the lengths are
\* visited in ascending order from 1024 in steps of 1024.
C23_FixedOrder ==
    \A k \in SweepSteps :
        LET e == sweep.log[k] IN
        /\ e.length \in SweepLengths
        /\ k = 1 => (Place(e) = 1 /\ e.length = 1024)
        /\ k > 1 =>
               LET d == sweep.log[k - 1] IN
               \/ e.length = d.length /\ d.ok /\ Place(e) = Place(d) + 1
               \/ /\ e.length = d.length + 1024
                  /\ Place(e) = 1
                  /\ ~d.ok \/ Place(d) = Len(FixedOrder)
        /\ e.what = "allocator" =>
               \A i \in 1..8 : \E j \in 1..(k - 1) :
                   /\ sweep.log[j].length = e.length
                   /\ Place(sweep.log[j]) = i
                   /\ sweep.log[j].ok

\* a sweep ended in which every length ran its eight commands and both
\* allocator checks
C23_Witness ==
    /\ sweep.pc = "finished"
    /\ ~sweep.failed
    /\ Len(sweep.log) = MaxLengths * Len(FixedOrder) + 1


----------------------------------------------------------------------------
\* Vocabulary for the claims about AllocatorInfo

NumericCounters ==
    {"heldByThreads", "typeSize", "transferBatchSize", "globalFreeListMax",
     "batchesRebalancedToGlobal", "batchesRebalancedToThreads", "totalFreeToHeap",
     "localFreeListMax", "totalAllocFromHeap"}

\* the positions of the output that hold an allocator
AllocatorPositions ==
    {i \in 1..Len(parse.json) : parse.json[i]["type"] = AllocatorType}

\* C24: from_qdmanage_json_out returns one entry for each input object whose
\* type is the allocator type, in input order, and none for another type; in
\* an entry every key of the object has the object's value and every numeric
\* counter missing from the object is 0.
C24_AllocatorsParsed ==
    parse.pc = "parsed" =>
        /\ Len(parse.ret) = Cardinality(AllocatorPositions)
        /\ \A i \in AllocatorPositions :
               LET d == parse.json[i]
                   entry == parse.ret[Cardinality({m \in AllocatorPositions : m <= i})]
               IN  /\ \A k \in DOMAIN d : entry[k] = d[k]
                   /\ \A k \in NumericCounters \ DOMAIN d : entry[k] = 0

\* an output was parsed whose first object is no allocator and whose second
\* is one with totalAllocFromHeap 10 and no heldByThreads
C24_Witness ==
    /\ parse.pc = "parsed"
    /\ AllocatorPositions = {2}
    /\ "heldByThreads" \notin DOMAIN parse.json[2]
    /\ Len(parse.ret) = 1
    /\ parse.ret[1].totalAllocFromHeap = 10
    /\ parse.ret[1].heldByThreads = 0

\* the entry the loop has just checked
Checked == parse.ret[thr.i]

\* C25: for an allocator whose typeName is in the THRESHOLDS table,
\* threshold_exceeds_list returns exactly one tuple (counter, observed value,
\* limit) for each thresholded counter whose value is strictly greater than
\* its limit and nothing else; it is empty exactly when no counter exceeds.
C25_ExceedsList ==
    (parse.pc = "parsed" /\ thr.i > 0 /\ Checked.typeName \in DOMAIN THRESHOLDS) =>
        LET limits == THRESHOLDS[Checked.typeName]
            over == {k \in DOMAIN limits : Checked[k] > limits[k]}
        IN  /\ thr.raised = "no"
            /\ Len(thr.list) = Cardinality(over)
            /\ {thr.list[n] : n \in 1..Len(thr.list)}
                   = {<< k, Checked[k], limits[k] >> : k \in over}
            /\ thr.list = << >> <=> \A k \in DOMAIN limits : Checked[k] <= limits[k]

\* an allocator was checked with one counter at its limit and the other above
C25_Witness ==
    /\ parse.pc = "parsed"
    /\ thr.i > 0
    /\ Checked.typeName = "qd_bitmask_t"
    /\ Checked.heldByThreads = 512
    /\ Checked.totalAllocFromHeap = 513
    /\ thr.list = << << "totalAllocFromHeap", 513, 512 >> >>

\* C28: for an allocator whose typeName has no entry in the THRESHOLDS table,
\* threshold_exceeds_list returns an empty list rather than failing, so the
\* check of an unknown allocator type does not end the item.
C28_UnknownTypeChecked ==
    (parse.pc = "parsed" /\ thr.i > 0 /\ Checked.typeName \notin DOMAIN THRESHOLDS) =>
        /\ thr.raised = "no"
        /\ thr.list = << >>
        /\ thr.pc = "loop"


----------------------------------------------------------------------------
\* the launch of controller p failed and its constructor has been left
LaunchFailed(p) ==
    /\ kind[p] = "controller"
    /\ os[p] = "reaped"
    /\ returncode[p] = None
    /\ ~(InConstructor /\ cur = p)

\* C27: when the launch of a controller process fails, the error propagates at
\* once and leaves no supervision state behind: after the failed construction
\* no timeout timer remains armed for the command that never started.
C27_NoTimerAfterFailedLaunch ==
    \A p \in Created :
        LaunchFailed(p) => ~(alarm_pending /\ sigalrm_handler = p)


\* the constructor of controller p is in its wait loop
Waiting(p) == cur = p /\ kind[p] = "controller" /\ pc \in {"ctl_wait", "ctl_sleep"}

====
